---- MODULE Spec2Model ----
(***************************************************************************)
(* Resilience layer of the integration service: the tiered rate limiter    *)
(* (utils/mlRateLimiter.js), the circuit breaker and its Express           *)
(* middleware (middleware/auth.js), the Redis wrapper                      *)
(* (config/redis.js) and the gateway function makeMLRequest with the       *)
(* routes that call it (routes/ml-api.js).                                 *)
(*                                                                         *)
(* Time is counted in ticks of a discrete clock.  Durations of the source  *)
(* (milliseconds, seconds) and its request limits are scaled down to a few *)
(* ticks and a few requests; each scaled value names the source line that  *)
(* sets the original, and the order between durations that interact is     *)
(* kept.  Every awaited Redis command is one step, so that requests        *)
(* interleave exactly where the event loop lets them.                      *)
(***************************************************************************)
EXTENDS Integers, Sequences, FiniteSets, TLC

VARIABLES
    now,        \* Date.now(), in ticks
    kv,         \* the shared Redis database: key -> [val, exp]
    storeUp,    \* the service's connection to Redis works
    \* ---- requests running through routes/ml-api.js (makeMLRequest) ----
    pc,         \* position of each request handler
    route,      \* the route the handler serves
    tok,        \* the access token of the calling user ("none": no token)
    opt,        \* options of the makeMLRequest call in progress
    tier,       \* tier being checked / recorded (1 global, 2 user, 3 burst)
    err,        \* error thrown by makeMLRequest ("none": it returned)
    status,     \* HTTP status the route answered with (0: none yet)
    started,    \* number of requests started so far
    \* ---- history of the rate limiter, for the properties ----
    admit,      \* per handler: what held when checkRateLimit returned true
    penSeen,    \* per handler: end of the penalty in force when it started
    penUntil,   \* per identifier: end of the last penalty applied
    sent,       \* HTTP requests sent upstream in the current global window
    admits,     \* per identifier: admissions in the current user window
    overlapped, \* two handlers have been in progress at the same time
    earlyReject, \* a user-tier rejection happened below the user limit
    \* ---- the upstream API and the payloads on their way to the caller ----
    upstream,   \* version of the item at the upstream: the number of updates applied
    resp,       \* per handler: the response axios has returned
    body,       \* per handler: what the route answers with
    \* ---- history of the cache, for the properties ----
    acked,      \* highest version whose update was answered with success
    floor,      \* per handler: the value of acked when the request arrived
    sentBy,     \* per handler: HTTP requests it has sent upstream
    recBy,      \* per handler: counters it has incremented
    \* ---- the circuit breaker (middleware/auth.js) ----
    cbMem,      \* per instance: the fields of the CircuitBreaker singleton
    tasks,      \* requests in the middleware and breaker calls in progress
    pipe,       \* per instance: the calls whose get is issued, oldest first
    cbStarted,  \* number of requests that have entered the middleware
    \* ---- history of the circuit breaker, for the properties ----
    consec,     \* onFailure calls completed since the last completed onSuccess
    lastFailAt, \* time of the last completed onFailure call
    cbExpired,  \* the circuit record has expired at least once
    hoAdmits,   \* calls admitted by the HALF_OPEN branch in the episode in progress
    probeOk,    \* probes of the episode in progress that were answered with success
    hoFailAt,   \* time of the last failure recorded by a call that saw HALF_OPEN
    hitChanged, \* a call made for a response served from the cache changed the record
    closing,    \* the step just taken wrote the record with state CLOSED
    \* ---- the MercadoLibre tokens of one user ----
    db,         \* the user's row of table users: the token columns
    mlTokens,   \* `ml_tokens:${userId}` in the user service's Redis
    revoked,    \* the token endpoint no longer accepts the user's refresh token
    tpc,        \* per token request: where its handler is
    tloc,       \* per token request: the handler's local variables
    tstarted,   \* token requests started so far
    cleared,    \* a disconnect of the user has been answered with success
    \* ---- a caller of RedisClient.get, set and del (config/redis.js) ----
    got,        \* the last get: its key, what it returned and when
    puts        \* history: per key, the last set that no del has followed

cacheVars == <<upstream, resp, body, acked, floor, sentBy, recBy>>

rlVars == <<pc, route, tok, opt, tier, err, status, started,
            admit, penSeen, penUntil, sent, admits, overlapped, earlyReject, cacheVars>>

cbVars == <<cbMem, tasks, pipe, cbStarted, consec, lastFailAt, cbExpired, hoAdmits,
            probeOk, hoFailAt, hitChanged, closing>>

tokVars == <<db, mlTokens, revoked, tpc, tloc, tstarted, cleared>>

stVars == <<got, puts>>

vars == <<now, kv, storeUp, rlVars, cbVars, tokVars, stVars>>

-----------------------------------------------------------------------------
(* Bounds of the model *)

NumProcs == 2       \* request handlers that can be in progress together
MaxRequests == 3    \* requests started in one behaviour
MaxTicks == 2       \* clock ticks in one behaviour

NumInstances == 2   \* instances of the service
NumTasks == 3       \* breaker calls and gated requests in progress together
MaxCBRequests == 3  \* requests entering the middleware in one behaviour
MaxCBTicks == 1     \* clock ticks in one behaviour of the circuit breaker

NumTokProcs == 2    \* token requests that can be in progress together
MaxTokRequests == 3 \* token requests started in one behaviour
MaxTokTicks == 2    \* clock ticks in one behaviour of the token handlers

(* Program constants, scaled *)

FailureThreshold == 3       \* failureThreshold: 5
RecoveryTimeout == 1        \* recoveryTimeout: 30000 ms
HalfOpenMaxCalls == 2       \* halfOpenMaxCalls: 3
StateTTL == 2               \* TTL of the circuit record: 300 s
NullTime == 0               \* lastFailureTime = null

GlobalLimitRequests == 3    \* 10000 requests
UserLimitRequests == 2      \* 1000 requests
BurstLimitRequests == 1     \* 100 requests
HourWindowMs == 3           \* 3600000 ms, the window of globalLimit and userLimit
BurstWindowMs == 1          \* 60000 ms
PenaltyDuration == 2        \* 300 s
CacheTTLUserInfo == 2       \* CACHE_TTL.USER_INFO, 300 s
CacheTTLProducts == 1       \* CACHE_TTL.PRODUCTS, 60 s
CacheTTLProductDetail == 2  \* CACHE_TTL.PRODUCT_DETAIL, 180 s
CacheTTLCategory == 3       \* 3600 s
CacheTTLDefault == 1        \* makeMLRequest's default cacheTTL, 60 s
TokenCacheTTL == 1          \* cacheUserTokens(userId, tokens, 1800)
TokenExpiresIn == 2         \* expires_in of the token endpoint's answer, 21600 s

\* Date.now() when the behaviour starts: well past the first windows, on a
\* boundary of the hour window.
Epoch == 2 * HourWindowMs

Procs == 1..NumProcs
Tokens == {"tokA", "tokB"}
Null == "null"

-----------------------------------------------------------------------------
(* config/redis.js: the Redis commands the service uses.  A key that has   *)
(* expired is absent: Tick removes it at its expiry time.                  *)

Has(key) == key \in DOMAIN kv

\* client.get + JSON.parse: the stored value, or null for an absent key
Get(key) == IF Has(key) THEN kv[key].val ELSE Null

\* a get that is answered although the connection is lost
ReadsWithoutConnection(key) == Has(key)

\* RedisClient.get returns a value: the command reached Redis and the key is
\* there.  A command that fails is caught, and get returns null
Reads(key) == storeUp /\ Has(key)

\* RedisClient.set and del, and the MULTI of incrementCounter: a command that
\* fails is caught and leaves the database as it is
Written(store) == IF storeUp THEN store ELSE kv

\* client.setEx(key, ttlSeconds, JSON.stringify(value))
SetEx(store, key, value, ttl) ==
    [k \in DOMAIN store \cup {key} |->
        IF k = key THEN [val |-> value, exp |-> now + ttl] ELSE store[k]]

\* client.del(key)
Del(store, key) == [k \in DOMAIN store \ {key} |-> store[k]]

\* client.multi().incr(key).expire(key, ttl).exec()
IncrExpire(store, key, ttl) ==
    [k \in DOMAIN store \cup {key} |->
        IF k = key
        THEN [val |-> (IF key \in DOMAIN store THEN store[key].val ELSE 0) + 1,
              exp |-> now + ttl]
        ELSE store[k]]

\* a key that is still there at the instant its TTL runs out
UnexpiredLate(store, t) == [k \in {x \in DOMAIN store : store[x].exp >= t} |-> store[k]]

\* what Redis holds once the clock reads t
Unexpired(store, t) == [k \in {x \in DOMAIN store : store[x].exp > t} |-> store[k]]

-----------------------------------------------------------------------------
(* utils/mlRateLimiter.js *)

\* the identifier makeMLRequest hands to the limiter: accessToken || 'global'
Identifier(o) == IF o.accessToken = "none" THEN "global" ELSE o.accessToken

\* the key of the tier checked: 'global', `user:${identifier}`, `burst:${identifier}`
TierKey(t, identifier) ==
    CASE t = 1 -> <<"global">>
      [] t = 2 -> <<"user", identifier>>
      [] t = 3 -> <<"burst", identifier>>

TierLimit(t) ==
    CASE t = 1 -> GlobalLimitRequests
      [] t = 2 -> UserLimitRequests
      [] t = 3 -> BurstLimitRequests

TierWindowMs(t) == IF t = 3 THEN BurstWindowMs ELSE HourWindowMs

\* checkLimit: `penalty:${key}`
CheckPenaltyKey(key) == <<"penalty">> \o key

\* handleRateLimit: `penalty:${identifier}`
HandlePenaltyKey(identifier) == <<"penalty", identifier>>

\* getCurrentCount: the window index is computed with globalLimit.windowMs
\* whatever the tier
ReadCounterKey(key) == <<"rate_limit">> \o key \o <<ToString(now \div HourWindowMs)>>

\* incrementCounter: the window index is computed with the tier's windowMs
IncrCounterKey(key, windowMs) == <<"rate_limit">> \o key \o <<ToString(now \div windowMs)>>

\* getCurrentCount: count || 0
getCurrentCount(key) == IF Reads(ReadCounterKey(key)) THEN Get(ReadCounterKey(key)) ELSE 0

\* a check that lets the request through when the limit is reached
CountAllowedAtLimit(t, identifier) ==
    getCurrentCount(TierKey(t, identifier)) <= TierLimit(t)

\* checkLimit, after the penalty check: allowed = current < limit.requests
CountAllowed(t, identifier) == getCurrentCount(TierKey(t, identifier)) < TierLimit(t)

\* checkRateLimit: the tiers an identifier is checked and recorded against
LastTier(identifier) == IF identifier = "global" THEN 1 ELSE 3

-----------------------------------------------------------------------------
(* routes/ml-api.js: the routes and the makeMLRequest calls they make *)

Routes == {"userMe", "userItems", "itemGet", "itemPut", "category", "search", "health"}

\* routes that read the user's tokens and pass tokens.access_token
NeedsToken(r) == r \in {"userMe", "userItems", "itemGet", "itemPut"}

NoKey == <<>>

\* the options of the first makeMLRequest call of a route
FirstCall(r, t) ==
    CASE r = "userMe" ->
            [method |-> "GET", accessToken |-> t, useRateLimit |-> TRUE,
             cacheKey |-> <<"ml_user", t>>, cacheTTL |-> CacheTTLUserInfo]
      [] r = "userItems" ->
            [method |-> "GET", accessToken |-> t, useRateLimit |-> TRUE,
             cacheKey |-> <<"ml_products", t>>, cacheTTL |-> CacheTTLProducts]
      [] r = "itemGet" ->
            [method |-> "GET", accessToken |-> t, useRateLimit |-> TRUE,
             cacheKey |-> <<"ml_item", "item1">>, cacheTTL |-> CacheTTLProductDetail]
      [] r = "itemPut" ->
            [method |-> "GET", accessToken |-> t, useRateLimit |-> FALSE,
             cacheKey |-> NoKey, cacheTTL |-> CacheTTLDefault]
      [] r = "category" ->
            [method |-> "GET", accessToken |-> "none", useRateLimit |-> FALSE,
             cacheKey |-> <<"ml_category", "cat1">>, cacheTTL |-> CacheTTLCategory]
      [] r = "search" ->
            [method |-> "GET", accessToken |-> "none", useRateLimit |-> FALSE,
             cacheKey |-> <<"ml_search", "site1">>, cacheTTL |-> CacheTTLProducts]
      [] r = "health" ->
            [method |-> "GET", accessToken |-> "none", useRateLimit |-> FALSE,
             cacheKey |-> NoKey, cacheTTL |-> CacheTTLDefault]

\* PUT /items/:itemId, second call: the update itself
SecondCall(t) ==
    [method |-> "PUT", accessToken |-> t, useRateLimit |-> TRUE,
     cacheKey |-> NoKey, cacheTTL |-> CacheTTLDefault]

\* what the upstream can answer: a status, or 0 when no response arrives
\* (timeout, connection error)
UpstreamOutcomes == {200, 401, 403, 404, 429, 500, 0}

\* the routes and outcomes the rate limiter is exercised with: one route of
\* each shape (a rate-limited cached read, a write with its internal read,
\* a public read without rate limit), and one outcome of each kind
RLRoutes == {"itemGet", "itemPut", "category"}
RLOutcomes == {200, 429, 500}

\* the routes and handler outcomes the circuit breaker is exercised with: a
\* route that answers 404 for an upstream 404 and one that answers 500 for it
CBRoutes == {"userMe", "itemGet"}
CBOutcomes == {200, 404, 500}

\* what the gated handlers end with: a cache hit or an upstream outcome
CBHandlerOutcomes ==
    {[end |-> "cached", up |-> 0]} \cup {[end |-> "upstream", up |-> u] : u \in CBOutcomes}

\* the user whose requests go through the circuit breaker
CBUser == "tokA"

\* the cache key and the TTL of the read a gated route makes
CBCacheKey(r) == FirstCall(r, CBUser).cacheKey
CBCacheTTL(r) == FirstCall(r, CBUser).cacheTTL

\* makeMLRequest's catch block: the error thrown for an upstream outcome
ErrorOf(outcome) ==
    CASE outcome = 429 -> "ML_RATE_LIMIT_EXCEEDED"
      [] outcome = 401 -> "INVALID_TOKEN"
      [] outcome = 404 -> "NOT_FOUND"
      [] outcome = 0 -> "TRANSPORT"
      [] OTHER -> "ML_API_ERROR"

\* the catch block of each route: the status answered for a thrown error
RouteStatus(r, e) ==
    CASE r = "userMe" /\ e = "INVALID_TOKEN" -> 401
      [] r = "userItems" /\ e = "ML_RATE_LIMIT_EXCEEDED" -> 429
      [] r \in {"itemGet", "itemPut", "category"} /\ e = "NOT_FOUND" -> 404
      [] r = "health" -> 503
      [] OTHER -> 500

\* makeMLRequest: `if (method === 'GET' && cacheKey)`
UsesCache(o) == o.method = "GET" /\ o.cacheKey # NoKey

\* where makeMLRequest goes once the rate limiter has let the call through
AfterAdmit(o) == IF UsesCache(o) THEN "cacheGet" ELSE "http"

\* where makeMLRequest starts
EntryPc(o) == IF o.useRateLimit THEN "chkPen" ELSE AfterAdmit(o)

NoAdmit == [ok |-> FALSE, win |-> 0, burstFull |-> FALSE, penalized |-> FALSE,
            down |-> FALSE]

Identifiers == Tokens \cup {"global"}

\* no response yet
NoResp == [status |-> 0, method |-> "none", ver |-> 0]

\* nothing to answer with yet
NoBody == [src |-> "none", val |-> NoResp]

\* the routes that read or write the item
ItemRoutes == {"itemGet", "itemPut"}

\* response.data of the upstream's answer, told apart by the request it
\* answers, its status and the version of the resource it shows.  A successful
\* PUT applies an update and answers with the updated item
ResponseOf(r, o, outcome) ==
    [status |-> outcome, method |-> o.method,
     ver |-> IF r \in ItemRoutes /\ outcome = 200
             THEN (IF o.method = "PUT" THEN upstream + 1 ELSE upstream)
             ELSE 0]

\* the count incrementCounter has recorded for a tier in the window in progress
Recorded(t, identifier) ==
    LET k == IncrCounterKey(TierKey(t, identifier), TierWindowMs(t))
    IN  IF Has(k) THEN Get(k) ELSE 0

-----------------------------------------------------------------------------
(* Initial state: an empty Redis database, no request in progress *)

InitRL ==
    /\ pc = [p \in Procs |-> "idle"]
    /\ route = [p \in Procs |-> "none"]
    /\ tok = [p \in Procs |-> "none"]
    /\ opt = [p \in Procs |-> FirstCall("health", "none")]
    /\ tier = [p \in Procs |-> 1]
    /\ err = [p \in Procs |-> "none"]
    /\ status = [p \in Procs |-> 0]
    /\ started = 0
    /\ admit = [p \in Procs |-> NoAdmit]
    /\ penSeen = [p \in Procs |-> 0]
    /\ penUntil = [i \in Identifiers |-> 0]
    /\ sent = 0
    /\ admits = [i \in Identifiers |-> 0]
    /\ overlapped = FALSE
    /\ earlyReject = FALSE
    /\ upstream = 0
    /\ resp = [p \in Procs |-> NoResp]
    /\ body = [p \in Procs |-> NoBody]
    /\ acked = 0
    /\ floor = [p \in Procs |-> 0]
    /\ sentBy = [p \in Procs |-> 0]
    /\ recBy = [p \in Procs |-> 0]

-----------------------------------------------------------------------------
(* A route handler, from the request to the response.  The handlers run   *)
(* on any instances of the service: all the state of the rate limiter and  *)
(* of the cache is in Redis, and every Redis command is one step.          *)

\* the penalty, if any, that has been applied to an identifier and has not run out
PenaltyInForce(identifier) == IF now < penUntil[identifier] THEN penUntil[identifier] ELSE 0

\* a request arrives: the route resolves the token and calls makeMLRequest
Start(p, r, t) ==
    /\ pc[p] = "idle"
    /\ \A q \in Procs : q < p => pc[q] # "idle"    \* handlers are interchangeable
    /\ started < MaxRequests
    /\ t = "none" <=> ~NeedsToken(r)
    /\ started = 0 => t # "tokB"                   \* tokens are interchangeable
    /\ started' = started + 1
    /\ route' = [route EXCEPT ![p] = r]
    /\ tok' = [tok EXCEPT ![p] = t]
    /\ opt' = [opt EXCEPT ![p] = FirstCall(r, t)]
    /\ tier' = [tier EXCEPT ![p] = 1]
    /\ pc' = [pc EXCEPT ![p] = EntryPc(FirstCall(r, t))]
    /\ penSeen' = [penSeen EXCEPT ![p] = PenaltyInForce(Identifier(FirstCall(r, t)))]
    /\ overlapped' = (overlapped \/ \E q \in Procs \ {p} : pc[q] # "idle")
    /\ floor' = [floor EXCEPT ![p] = acked]
    /\ UNCHANGED <<now, kv, err, status, admit, penUntil, sent, admits, earlyReject>>
    /\ UNCHANGED <<upstream, resp, body, acked, sentBy, recBy>>
    /\ UNCHANGED <<cbVars, tokVars, storeUp, stVars>>

\* makeMLRequest throws e: the route's catch block answers
Throw(p, e) ==
    /\ err' = [err EXCEPT ![p] = e]
    /\ status' = [status EXCEPT ![p] = RouteStatus(route[p], e)]
    /\ pc' = [pc EXCEPT ![p] = "respond"]
    /\ UNCHANGED <<opt, tier, body>>

\* makeMLRequest returns the value b: the route goes on
Return(p, b) ==
    /\ UNCHANGED err
    /\ IF route[p] = "itemPut" /\ opt[p].method = "GET"
       THEN /\ opt' = [opt EXCEPT ![p] = SecondCall(tok[p])]
            /\ tier' = [tier EXCEPT ![p] = 1]
            /\ pc' = [pc EXCEPT ![p] = EntryPc(SecondCall(tok[p]))]
            /\ UNCHANGED <<status, body>>
       ELSE IF route[p] = "itemPut"
       THEN /\ pc' = [pc EXCEPT ![p] = "del"]
            /\ body' = [body EXCEPT ![p] = b]
            /\ UNCHANGED <<opt, tier, status>>
       ELSE /\ status' = [status EXCEPT ![p] = 200]
            /\ body' = [body EXCEPT ![p] = b]
            /\ pc' = [pc EXCEPT ![p] = "respond"]
            /\ UNCHANGED <<opt, tier>>

\* checkLimit, first await: redis.get(`penalty:${key}`)
CheckPenalty(p) ==
    /\ pc[p] = "chkPen"
    /\ IF Reads(CheckPenaltyKey(TierKey(tier[p], Identifier(opt[p]))))
       THEN Throw(p, "RATE_LIMIT_EXCEEDED")
       ELSE /\ pc' = [pc EXCEPT ![p] = "chkCnt"]
            /\ UNCHANGED <<opt, tier, err, status, body>>
    /\ UNCHANGED <<now, kv, route, tok, started, admit, penSeen, penUntil, sent,
                   admits, overlapped, earlyReject>>
    /\ UNCHANGED <<upstream, resp, acked, floor, sentBy, recBy>>
    /\ UNCHANGED <<cbVars, tokVars, storeUp, stVars>>

\* checkLimit, second await: getCurrentCount, then `current < limit.requests`;
\* checkRateLimit goes to the next tier or returns
CheckCount(p) ==
    LET id == Identifier(opt[p]) IN
    /\ pc[p] = "chkCnt"
    /\ IF ~CountAllowed(tier[p], id)
       THEN /\ Throw(p, "RATE_LIMIT_EXCEEDED")
            /\ earlyReject' = (earlyReject \/
                                (tier[p] = 2 /\ admits[id] < UserLimitRequests))
            /\ UNCHANGED <<admit, admits>>
       ELSE IF tier[p] < LastTier(id)
       THEN /\ tier' = [tier EXCEPT ![p] = tier[p] + 1]
            /\ pc' = [pc EXCEPT ![p] = "chkPen"]
            /\ UNCHANGED <<opt, err, status, body, admit, admits, earlyReject>>
       ELSE /\ pc' = [pc EXCEPT ![p] = AfterAdmit(opt[p])]
            /\ admit' = [admit EXCEPT ![p] =
                            [ok |-> TRUE, win |-> now \div HourWindowMs,
                             burstFull |-> (Recorded(3, id) >= BurstLimitRequests),
                             penalized |-> (now < penSeen[p]),
                             down |-> ~storeUp]]
            /\ admits' = [admits EXCEPT ![id] = admits[id] + 1]
            /\ UNCHANGED <<opt, tier, err, status, body, earlyReject>>
    /\ UNCHANGED <<now, kv, route, tok, started, penSeen, penUntil, sent, overlapped>>
    /\ UNCHANGED <<upstream, resp, acked, floor, sentBy, recBy>>
    /\ UNCHANGED <<cbVars, tokVars, storeUp, stVars>>

\* a lookup that treats every entry as absent
CacheGetMiss(p) ==
    /\ pc[p] = "cacheGet"
    /\ pc' = [pc EXCEPT ![p] = "http"]
    /\ UNCHANGED <<opt, tier, err, status, body>>
    /\ UNCHANGED <<now, kv, route, tok, started, admit, penSeen, penUntil, sent,
                   admits, overlapped, earlyReject>>
    /\ UNCHANGED <<upstream, resp, acked, floor, sentBy, recBy>>
    /\ UNCHANGED <<cbVars, tokVars, storeUp, stVars>>

\* makeMLRequest: redis.get(cacheKey); a hit is returned at once
CacheGet(p) ==
    /\ pc[p] = "cacheGet"
    /\ IF Reads(opt[p].cacheKey)
       THEN Return(p, [src |-> "cache", val |-> Get(opt[p].cacheKey)])
       ELSE /\ pc' = [pc EXCEPT ![p] = "http"]
            /\ UNCHANGED <<opt, tier, err, status, body>>
    /\ UNCHANGED <<now, kv, route, tok, started, admit, penSeen, penUntil, sent,
                   admits, overlapped, earlyReject>>
    /\ UNCHANGED <<upstream, resp, acked, floor, sentBy, recBy>>
    /\ UNCHANGED <<cbVars, tokVars, storeUp, stVars>>

\* where makeMLRequest goes after recordRequest, with response.data in d
AfterRecord(p, d) ==
    IF UsesCache(opt[p])
    THEN /\ pc' = [pc EXCEPT ![p] = "cacheSet"]
         /\ UNCHANGED <<opt, tier, err, status, body>>
    ELSE Return(p, [src |-> "upstream", val |-> d])

\* a request whose server errors are taken for answers
HttpKeepsErrors(p, outcome) ==
    LET d == ResponseOf(route[p], opt[p], outcome) IN
    /\ pc[p] = "http"
    /\ sent' = sent + 1
    /\ sentBy' = [sentBy EXCEPT ![p] = sentBy[p] + 1]
    /\ resp' = [resp EXCEPT ![p] = d]
    /\ upstream' = IF route[p] \in ItemRoutes /\ outcome = 200 THEN d.ver ELSE upstream
    /\ IF outcome # 429
       THEN IF opt[p].useRateLimit
            THEN /\ pc' = [pc EXCEPT ![p] = "record"]
                 /\ tier' = [tier EXCEPT ![p] = 1]
                 /\ UNCHANGED <<opt, err, status, body>>
            ELSE AfterRecord(p, d)
       ELSE /\ pc' = [pc EXCEPT ![p] = "penalize"]
            /\ UNCHANGED <<opt, tier, err, status, body>>
    /\ UNCHANGED <<now, kv, route, tok, started, admit, penSeen, penUntil,
                   admits, overlapped, earlyReject>>
    /\ UNCHANGED <<acked, floor, recBy>>
    /\ UNCHANGED <<cbVars, tokVars, storeUp, stVars>>

\* makeMLRequest: `await axios(config)` and the upstream's answer
Http(p, outcome) ==
    LET d == ResponseOf(route[p], opt[p], outcome) IN
    /\ pc[p] = "http"
    /\ sent' = sent + 1
    /\ sentBy' = [sentBy EXCEPT ![p] = sentBy[p] + 1]
    /\ resp' = [resp EXCEPT ![p] = d]
    /\ upstream' = IF route[p] \in ItemRoutes /\ outcome = 200 THEN d.ver ELSE upstream
    /\ IF outcome = 200
       THEN IF opt[p].useRateLimit
            THEN /\ pc' = [pc EXCEPT ![p] = "record"]
                 /\ tier' = [tier EXCEPT ![p] = 1]
                 /\ UNCHANGED <<opt, err, status, body>>
            ELSE AfterRecord(p, d)
       ELSE IF outcome = 429
       THEN /\ pc' = [pc EXCEPT ![p] = "penalize"]
            /\ UNCHANGED <<opt, tier, err, status, body>>
       ELSE Throw(p, ErrorOf(outcome))
    /\ UNCHANGED <<now, kv, route, tok, started, admit, penSeen, penUntil,
                   admits, overlapped, earlyReject>>
    /\ UNCHANGED <<acked, floor, recBy>>
    /\ UNCHANGED <<cbVars, tokVars, storeUp, stVars>>

\* recordRequest: one incrementCounter per tier
Record(p) ==
    LET id == Identifier(opt[p])
        w == TierWindowMs(tier[p]) IN
    /\ pc[p] = "record"
    /\ kv' = Written(IncrExpire(kv, IncrCounterKey(TierKey(tier[p], id), w), w))
    /\ recBy' = [recBy EXCEPT ![p] = IF storeUp THEN recBy[p] + 1 ELSE recBy[p]]
    /\ IF tier[p] < LastTier(id)
       THEN /\ tier' = [tier EXCEPT ![p] = tier[p] + 1]
            /\ UNCHANGED <<pc, opt, err, status, body>>
       ELSE AfterRecord(p, resp[p])
    /\ UNCHANGED <<now, route, tok, started, admit, penSeen, penUntil, sent,
                   admits, overlapped, earlyReject>>
    /\ UNCHANGED <<upstream, resp, acked, floor, sentBy>>
    /\ UNCHANGED <<cbVars, tokVars, storeUp, stVars>>

\* makeMLRequest: redis.set(cacheKey, response.data, cacheTTL)
CacheSet(p) ==
    /\ pc[p] = "cacheSet"
    /\ kv' = Written(SetEx(kv, opt[p].cacheKey, resp[p], opt[p].cacheTTL))
    /\ Return(p, [src |-> "upstream", val |-> resp[p]])
    /\ UNCHANGED <<now, route, tok, started, admit, penSeen, penUntil, sent,
                   admits, overlapped, earlyReject>>
    /\ UNCHANGED <<upstream, resp, acked, floor, sentBy, recBy>>
    /\ UNCHANGED <<cbVars, tokVars, storeUp, stVars>>

\* makeMLRequest on a 429: handleRateLimit(accessToken || 'global'), then throw
Penalize(p) ==
    LET id == Identifier(opt[p]) IN
    /\ pc[p] = "penalize"
    /\ kv' = Written(SetEx(kv, HandlePenaltyKey(id), "ML_429_RESPONSE", PenaltyDuration))
    /\ penUntil' = [penUntil EXCEPT ![id] = IF storeUp THEN now + PenaltyDuration ELSE @]
    /\ Throw(p, "ML_RATE_LIMIT_EXCEEDED")
    /\ UNCHANGED <<now, route, tok, started, admit, penSeen, sent,
                   admits, overlapped, earlyReject>>
    /\ UNCHANGED <<upstream, resp, acked, floor, sentBy, recBy>>
    /\ UNCHANGED <<cbVars, tokVars, storeUp, stVars>>

\* PUT /items/:itemId after the update: redis.del(`ml_item:${itemId}`)
Invalidate(p) ==
    /\ pc[p] = "del"
    /\ kv' = Written(Del(kv, <<"ml_item", "item1">>))
    /\ status' = [status EXCEPT ![p] = 200]
    /\ pc' = [pc EXCEPT ![p] = "respond"]
    /\ UNCHANGED <<now, route, tok, opt, tier, err, started, admit, penSeen,
                   penUntil, sent, admits, overlapped, earlyReject>>
    /\ UNCHANGED cacheVars
    /\ UNCHANGED <<cbVars, tokVars, storeUp, stVars>>

\* the response is sent; the handler is free again
Finish(p) ==
    /\ pc[p] = "respond"
    /\ pc' = [pc EXCEPT ![p] = "idle"]
    /\ route' = [route EXCEPT ![p] = "none"]
    /\ tok' = [tok EXCEPT ![p] = "none"]
    /\ opt' = [opt EXCEPT ![p] = FirstCall("health", "none")]
    /\ tier' = [tier EXCEPT ![p] = 1]
    /\ err' = [err EXCEPT ![p] = "none"]
    /\ status' = [status EXCEPT ![p] = 0]
    /\ admit' = [admit EXCEPT ![p] = NoAdmit]
    /\ penSeen' = [penSeen EXCEPT ![p] = 0]
    /\ resp' = [resp EXCEPT ![p] = NoResp]
    /\ body' = [body EXCEPT ![p] = NoBody]
    /\ floor' = [floor EXCEPT ![p] = 0]
    /\ sentBy' = [sentBy EXCEPT ![p] = 0]
    /\ recBy' = [recBy EXCEPT ![p] = 0]
    /\ acked' = IF route[p] = "itemPut" /\ status[p] = 200 /\ body[p].val.ver > acked
               THEN body[p].val.ver ELSE acked
    /\ UNCHANGED <<now, kv, started, penUntil, sent, admits, overlapped, earlyReject,
                   upstream>>
    /\ UNCHANGED <<cbVars, tokVars, storeUp, stVars>>

\* the clock advances; keys whose TTL has run out disappear
Tick ==
    /\ now < Epoch + MaxTicks
    /\ now' = now + 1
    /\ kv' = Unexpired(kv, now + 1)
    /\ IF (now + 1) \div HourWindowMs # now \div HourWindowMs
       THEN /\ sent' = 0
            /\ admits' = [i \in Identifiers |-> 0]
       ELSE UNCHANGED <<sent, admits>>
    /\ UNCHANGED <<pc, route, tok, opt, tier, err, status, started, admit, penSeen,
                   penUntil, overlapped, earlyReject>>
    /\ UNCHANGED cacheVars
    /\ UNCHANGED <<cbVars, tokVars, storeUp, stVars>>

NextRL ==
    \/ \E p \in Procs, r \in RLRoutes, t \in Tokens \cup {"none"} : Start(p, r, t)
    \/ \E p \in Procs : CheckPenalty(p)
    \/ \E p \in Procs : CheckCount(p)
    \/ \E p \in Procs : CacheGet(p)
    \/ \E p \in Procs, outcome \in RLOutcomes : Http(p, outcome)
    \/ \E p \in Procs : Record(p)
    \/ \E p \in Procs : CacheSet(p)
    \/ \E p \in Procs : Penalize(p)
    \/ \E p \in Procs : Invalidate(p)
    \/ \E p \in Procs : Finish(p)
    \/ Tick

-----------------------------------------------------------------------------
(* middleware/auth.js, class CircuitBreaker: the singleton of each          *)
(* instance and the record it keeps in Redis.  A call of canExecute,       *)
(* onSuccess, onFailure or getStats is three steps: Redis serves the get   *)
(* of getState; getState's continuation copies the record into the         *)
(* singleton and returns this.currentState; the caller's continuation      *)
(* decides and writes.  The record's `timestamp` field and the second get  *)
(* of getStats only feed the report of getStats and are left out.          *)

Instances == 1..NumInstances
TaskIds == 1..NumTasks

CBKey == <<"circuit_breaker", "ml_api">>

\* the constructor: CLOSED, no failure
FreshBreaker ==
    [currentState |-> "CLOSED", failureCount |-> 0,
     lastFailureTime |-> NullTime, halfOpenCalls |-> 0]

\* the answer of redis.get for an absent record
NoData ==
    [state |-> "none", failureCount |-> 0, lastFailureTime |-> NullTime, halfOpenCalls |-> 0]

NoTask ==
    [kind |-> "none", inst |-> 0, step |-> "none", data |-> NoData, cur |-> "none",
     cause |-> "none", late |-> 0, probe |-> FALSE, after |-> 0,
     route |-> "none", hit |-> FALSE, down |-> FALSE]

\* redis.get('circuit_breaker:ml_api')
ReadCircuit == IF Reads(CBKey) THEN Get(CBKey) ELSE NoData

\* getState, after the get: the record, when there is one, replaces the fields
getState(m, data) ==
    IF data.state # "none"
    THEN [currentState |-> data.state, failureCount |-> data.failureCount,
          lastFailureTime |-> data.lastFailureTime, halfOpenCalls |-> data.halfOpenCalls]
    ELSE m

\* setState: the record written from the singleton's fields
StateData(m) ==
    [state |-> m.currentState, failureCount |-> m.failureCount,
     lastFailureTime |-> m.lastFailureTime, halfOpenCalls |-> m.halfOpenCalls]

\* setState(state): set this.currentState, write the record with a TTL
setState(m, state) == [m EXCEPT !.currentState = state]

transitionToClosed(m) ==
    setState([m EXCEPT !.failureCount = 0, !.halfOpenCalls = 0,
                       !.lastFailureTime = NullTime], "CLOSED")

transitionToOpen(m) == setState([m EXCEPT !.halfOpenCalls = 0], "OPEN")

transitionToHalfOpen(m) == setState([m EXCEPT !.halfOpenCalls = 0], "HALF_OPEN")

\* a breaker that never tries recovery
RecoveryNever(m) == FALSE

\* canExecute in state OPEN: is it time to try recovery
RecoveryDue(m) ==
    m.lastFailureTime # NullTime /\ (now - m.lastFailureTime) >= RecoveryTimeout

\* canExecute: the answer, for the state getState returned
canExecute(m, cur) ==
    CASE cur = "CLOSED" -> TRUE
      [] cur = "OPEN" -> RecoveryDue(m)
      [] cur = "HALF_OPEN" -> m.halfOpenCalls < HalfOpenMaxCalls
      [] OTHER -> TRUE

\* canExecute: the singleton afterwards
canExecuteMem(m, cur) ==
    IF cur = "OPEN" /\ RecoveryDue(m) THEN transitionToHalfOpen(m) ELSE m

\* canExecute writes the record only when it moves to HALF_OPEN
canExecuteWrites(m, cur) == cur = "OPEN" /\ RecoveryDue(m)

\* onSuccess: the singleton afterwards
onSuccessMem(m, cur) ==
    IF cur = "HALF_OPEN"
    THEN LET m1 == [m EXCEPT !.halfOpenCalls = m.halfOpenCalls + 1]
         IN  IF m1.halfOpenCalls >= HalfOpenMaxCalls
             THEN transitionToClosed(m1)
             ELSE setState(m1, "HALF_OPEN")
    ELSE IF cur = "CLOSED" /\ m.failureCount > 0
    THEN setState([m EXCEPT !.failureCount = 0], "CLOSED")
    ELSE m

onSuccessWrites(m, cur) == cur = "HALF_OPEN" \/ (cur = "CLOSED" /\ m.failureCount > 0)

\* onFailure: the singleton afterwards; it always writes the record
onFailureMem(m, cur) ==
    LET m1 == [m EXCEPT !.failureCount = m.failureCount + 1, !.lastFailureTime = now]
    IN  IF cur = "HALF_OPEN"
        THEN transitionToOpen(m1)
        ELSE IF cur = "CLOSED" /\ m1.failureCount >= FailureThreshold
        THEN transitionToOpen(m1)
        ELSE setState(m1, cur)

\* circuitBreakerMiddleware.handleResponse: the breaker call made for a status
handleResponse(statusCode) ==
    IF statusCode >= 200 /\ statusCode < 400 THEN "onSuccess"
    ELSE IF statusCode >= 500 THEN "onFailure"
    ELSE "none"

\* what a gated route handler can end with: a cache hit, a denial by the rate
\* limiter, or an upstream outcome
HandlerOutcomes ==
    {[end |-> "cached", up |-> 0], [end |-> "denied", up |-> 0]}
        \cup {[end |-> "upstream", up |-> u] : u \in UpstreamOutcomes}

\* the status the route answers with
ResponseStatus(r, h) ==
    CASE h.end = "cached" -> 200
      [] h.end = "denied" -> RouteStatus(r, "RATE_LIMIT_EXCEEDED")
      [] h.up = 200 -> 200
      [] OTHER -> RouteStatus(r, ErrorOf(h.up))

\* the kind of outcome a handler ended with
CauseOf(h) ==
    CASE h.end = "cached" -> "hit"
      [] h.end = "denied" -> "local"
      [] h.up = 200 -> "ok"
      [] h.up = 0 -> "transport"
      [] h.up >= 500 -> "server"
      [] OTHER -> "client"

-----------------------------------------------------------------------------
(* History of the circuit breaker *)

\* threshold failures in a row have been recorded and the recovery timeout
\* has not elapsed since the last of them
BlackoutAt(c, l) == c >= FailureThreshold /\ now - l < RecoveryTimeout

Blackout == BlackoutAt(consec, lastFailAt)

\* a failure was recorded at time f by a call that saw HALF_OPEN, and the
\* recovery timeout has not elapsed since
Reopened(f) == f # NullTime /\ now - f < RecoveryTimeout

StoredStateOf(store) == IF CBKey \in DOMAIN store THEN store[CBKey].val.state ELSE "none"

StoredState == StoredStateOf(kv)

-----------------------------------------------------------------------------
(* Initial state of the circuit breaker *)

InitCB ==
    /\ cbMem = [i \in Instances |-> FreshBreaker]
    /\ tasks = [t \in TaskIds |-> NoTask]
    /\ pipe = [i \in Instances |-> <<>>]
    /\ cbStarted = 0
    /\ consec = 0
    /\ lastFailAt = NullTime
    /\ cbExpired = FALSE
    /\ hoAdmits = 0
    /\ probeOk = 0
    /\ hoFailAt = NullTime
    /\ hitChanged = FALSE
    /\ closing = FALSE

-----------------------------------------------------------------------------
(* The middleware and the breaker calls.  An instance sends its commands   *)
(* to Redis over one connection: Redis serves them in the order they were  *)
(* issued and the answers come back in that order.  The answers that       *)
(* arrive together are handled in one turn of the event loop: the          *)
(* continuations of getState run first, in order, then the continuations   *)
(* of the callers, in order, and nothing else runs on the instance in      *)
(* between.  A write issued by a continuation is applied in that turn; the *)
(* gets the instance had issued before are served before it.               *)

FreeTasks == {t \in TaskIds : tasks[t].kind = "none"}

LowestFree == CHOOSE t \in FreeTasks : \A u \in FreeTasks : t <= u

\* a request enters circuitBreakerMiddleware on instance i: canExecute is
\* called and getState issues its get
Arrive(i, r) ==
    /\ FreeTasks # {}
    /\ tasks' = [tasks EXCEPT ![LowestFree] =
                    [NoTask EXCEPT !.kind = "canExecute", !.inst = i, !.step = "get",
                                   !.route = r, !.hit = Has(CBCacheKey(r)),
                                   !.late = IF Blackout THEN consec ELSE 0,
                                   !.after = IF Reopened(hoFailAt) THEN hoFailAt ELSE 0]]
    /\ pipe' = [pipe EXCEPT ![i] = Append(pipe[i], LowestFree)]
    /\ UNCHANGED <<now, kv, rlVars, tokVars, storeUp, stVars, cbMem, consec, lastFailAt, cbExpired, hoAdmits,
                   probeOk, hoFailAt, hitChanged>>
    /\ closing' = FALSE

\* one of the MaxCBRequests requests of a bounded behaviour enters
Enter(i, r) ==
    /\ cbStarted < MaxCBRequests
    /\ i <= cbStarted + 1      \* instances are interchangeable
    /\ cbStarted' = cbStarted + 1
    /\ Arrive(i, r)

\* Redis serves the oldest command of the instance that is not served yet:
\* the get of getState or the last Redis command of a route handler
GetCircuit(t) ==
    LET q == pipe[tasks[t].inst] IN
    /\ tasks[t].step = "get"
    /\ \A k \in 1..Len(q) : tasks[q[k]].step = "get" =>
            \A j \in 1..Len(q) : q[j] = t => j <= k
    /\ tasks' = [tasks EXCEPT
                    ![t].data = IF tasks[t].kind = "handler" THEN NoData ELSE ReadCircuit,
                    ![t].down = IF tasks[t].kind = "canExecute" THEN ~storeUp ELSE @,
                    ![t].step = "load"]
    /\ UNCHANGED <<now, kv, rlVars, tokVars, storeUp, stVars, cbMem, pipe, cbStarted, consec, lastFailAt,
                   cbExpired, hoAdmits, probeOk, hoFailAt, hitChanged>>
    /\ closing' = FALSE

\* getState's continuation: the singleton takes the record, the caller gets
\* this.currentState
LoadState(S, t) ==
    LET m == getState(S.mem, S.tasks[t].data) IN
    [S EXCEPT !.mem = m,
              !.tasks = [S.tasks EXCEPT ![t].cur = m.currentState, ![t].step = "act",
                                        ![t].data = NoData]]

\* canExecute's continuation: the decision, and the move to HALF_OPEN when
\* due.  An admitted request goes on to its route handler; a rejected request
\* calls getStats, whose getState issues a get
CanExecute(S, t) ==
    LET m == S.mem
        cur == S.tasks[t].cur
        ok == canExecute(m, cur)
        writes == canExecuteWrites(m, cur)
        stored == StoredStateOf(S.kv) IN
    [S EXCEPT
        !.mem = canExecuteMem(m, cur),
        !.kv = IF writes /\ storeUp
               THEN SetEx(S.kv, CBKey, StateData(canExecuteMem(m, cur)), StateTTL)
               ELSE S.kv,
        !.tasks = [S.tasks EXCEPT ![t] =
                      IF ok
                      THEN [S.tasks[t] EXCEPT
                               !.kind = "handler", !.step = "route", !.cur = "none",
                               !.hit = FALSE,
                               !.late = IF /\ S.tasks[t].late = S.consec
                                           /\ BlackoutAt(S.consec, S.lastFailAt)
                                        THEN S.consec ELSE 0,
                               !.probe = (cur = "HALF_OPEN"),
                               !.after = IF /\ S.tasks[t].after = S.hoFailAt
                                            /\ Reopened(S.hoFailAt)
                                         THEN S.hoFailAt ELSE 0]
                      ELSE [S.tasks[t] EXCEPT
                               !.kind = "getStats", !.step = "get",
                               !.cur = "none", !.late = 0, !.after = 0,
                               !.hit = /\ S.tasks[t].hit
                                       /\ cur = "OPEN"
                                       /\ CBCacheKey(S.tasks[t].route) \in DOMAIN S.kv]],
        !.issued = IF ok THEN S.issued ELSE Append(S.issued, t),
        !.hoAdmits = IF writes /\ stored # "HALF_OPEN" THEN 0
                     ELSE IF ok /\ cur = "HALF_OPEN" /\ stored = "HALF_OPEN"
                             /\ S.hoAdmits < MaxCBRequests
                     THEN S.hoAdmits + 1
                     ELSE S.hoAdmits,
        !.probeOk = IF writes THEN 0 ELSE S.probeOk]

\* the middleware rejects: getStats has called getState once more; 503 is
\* answered before res.json is wrapped, so that nothing is recorded
Reject(S, t) == [S EXCEPT !.tasks = [S.tasks EXCEPT ![t] = NoTask]]

\* onSuccess's continuation
OnSuccess(S, t) ==
    LET m == S.mem
        cur == S.tasks[t].cur
        m2 == onSuccessMem(m, cur)
        writes == onSuccessWrites(m, cur) IN
    [S EXCEPT
        !.mem = m2,
        !.kv = IF writes /\ storeUp THEN SetEx(S.kv, CBKey, StateData(m2), StateTTL)
               ELSE S.kv,
        !.tasks = [S.tasks EXCEPT ![t] = NoTask],
        !.consec = 0,
        !.hoAdmits = IF writes /\ m2.currentState # "HALF_OPEN" THEN 0 ELSE S.hoAdmits,
        !.closed = (S.closed \/ (writes /\ storeUp /\ m2.currentState = "CLOSED")),
        !.hitChanged = (S.hitChanged \/
                          /\ S.tasks[t].cause = "hit"
                          /\ writes
                          /\ CBKey \in DOMAIN S.kv
                          /\ S.kv[CBKey].val # StateData(m2))]

\* onFailure's continuation
OnFailure(S, t) ==
    LET m2 == onFailureMem(S.mem, S.tasks[t].cur) IN
    [S EXCEPT
        !.mem = m2,
        !.kv = IF storeUp THEN SetEx(S.kv, CBKey, StateData(m2), StateTTL) ELSE S.kv,
        !.tasks = [S.tasks EXCEPT ![t] = NoTask],
        !.consec = S.consec + 1,
        !.lastFailAt = now,
        !.hoAdmits = IF m2.currentState # "HALF_OPEN" THEN 0 ELSE S.hoAdmits,
        !.closed = (S.closed \/ (storeUp /\ m2.currentState = "CLOSED")),
        !.probeOk = 0,
        !.hoFailAt = IF S.tasks[t].cur = "HALF_OPEN" THEN now ELSE S.hoFailAt]

\* the route handler has the answer to its last Redis command; what is left
\* before it answers is the upstream call or the event sent to Kafka
RouteHandler(S, t) == [S EXCEPT !.tasks = [S.tasks EXCEPT ![t].step = "upstream"]]

\* the continuation of the caller
Continue(S, t) ==
    CASE S.tasks[t].kind = "canExecute" -> CanExecute(S, t)
      [] S.tasks[t].kind = "handler" -> RouteHandler(S, t)
      [] S.tasks[t].kind = "getStats" -> Reject(S, t)
      [] S.tasks[t].kind = "onSuccess" -> OnSuccess(S, t)
      [] S.tasks[t].kind = "onFailure" -> OnFailure(S, t)

RECURSIVE LoadAll(_, _)
LoadAll(S, calls) ==
    IF calls = <<>> THEN S
    ELSE LoadAll(IF S.tasks[Head(calls)].kind = "handler" THEN S
                 ELSE LoadState(S, Head(calls)),
                 Tail(calls))

RECURSIVE ContinueAll(_, _)
ContinueAll(S, calls) ==
    IF calls = <<>> THEN S ELSE ContinueAll(Continue(S, Head(calls)), Tail(calls))

\* a turn of the event loop of instance i: the answers to its n oldest gets
\* have arrived together
Deliver(i, n) ==
    LET q == pipe[i]
        calls == SubSeq(q, 1, n)
        S0 == [mem |-> cbMem[i], kv |-> kv, tasks |-> tasks, issued |-> <<>>,
               consec |-> consec, lastFailAt |-> lastFailAt, hoAdmits |-> hoAdmits,
               probeOk |-> probeOk, hoFailAt |-> hoFailAt, hitChanged |-> hitChanged,
               closed |-> FALSE]
        S == ContinueAll(LoadAll(S0, calls), calls) IN
    /\ n \in 1..Len(q)
    /\ \A k \in 1..Len(q) : tasks[q[k]].step = "load"
    /\ cbMem' = [cbMem EXCEPT ![i] = S.mem]
    /\ kv' = S.kv
    /\ tasks' = S.tasks
    /\ pipe' = [pipe EXCEPT ![i] = SubSeq(q, n + 1, Len(q)) \o S.issued]
    /\ consec' = S.consec
    /\ lastFailAt' = S.lastFailAt
    /\ hoAdmits' = S.hoAdmits
    /\ probeOk' = S.probeOk
    /\ hoFailAt' = S.hoFailAt
    /\ hitChanged' = S.hitChanged
    /\ closing' = S.closed
    /\ UNCHANGED <<now, rlVars, tokVars, storeUp, stVars, cbStarted, cbExpired>>

\* the route handler issues the last Redis command it makes before it answers
\* (user tokens, rate-limit checks and cache lookup come before the upstream
\* call; recordRequest and the cache write come after it)
Handle(t) ==
    /\ tasks[t].kind = "handler"
    /\ tasks[t].step = "route"
    /\ tasks' = [tasks EXCEPT ![t].step = "get"]
    /\ pipe' = [pipe EXCEPT ![tasks[t].inst] = Append(pipe[tasks[t].inst], t)]
    /\ UNCHANGED <<now, kv, rlVars, tokVars, storeUp, stVars, cbMem, cbStarted, consec, lastFailAt, cbExpired, hoAdmits,
                   probeOk, hoFailAt, hitChanged>>
    /\ closing' = FALSE

\* the route handler ends: a read answered from the cache needs an unexpired
\* entry; a read answered 200 by the upstream has put the answer in the cache.
\* The route answers through res.json, which the middleware has wrapped, and
\* Express's res.json calls res.send, which it has wrapped too: handleResponse
\* runs twice for the response, and each run starts a breaker call
Respond(t, h) ==
    LET r == tasks[t].route
        k == handleResponse(ResponseStatus(r, h))
        i == tasks[t].inst
        call == [NoTask EXCEPT !.kind = k, !.inst = i, !.step = "get",
                               !.cause = CauseOf(h)] IN
    /\ tasks[t].step = "upstream"
    /\ h.end = "cached" => Reads(CBCacheKey(r))
    /\ kv' = IF h.end = "upstream" /\ h.up = 200
             THEN Written(SetEx(kv, CBCacheKey(r), "data", CBCacheTTL(r)))
             ELSE kv
    /\ IF k = "none"
       THEN /\ tasks' = [tasks EXCEPT ![t] = NoTask]
            /\ UNCHANGED pipe
       ELSE /\ FreeTasks # {}
            /\ tasks' = [tasks EXCEPT ![t] = call, ![LowestFree] = call]
            /\ pipe' = [pipe EXCEPT ![i] = pipe[i] \o <<t, LowestFree>>]
    /\ probeOk' = IF /\ tasks[t].probe /\ k = "onSuccess" /\ StoredState = "HALF_OPEN"
                     /\ probeOk < MaxCBRequests
                  THEN probeOk + 1 ELSE probeOk
    /\ UNCHANGED <<now, rlVars, tokVars, storeUp, stVars, cbMem, cbStarted, consec, lastFailAt, cbExpired, hoAdmits,
                   hoFailAt, hitChanged>>
    /\ closing' = FALSE

\* the clock advances; the circuit record disappears when its TTL runs out
TickCB ==
    /\ now < Epoch + MaxCBTicks
    /\ now' = now + 1
    /\ kv' = Unexpired(kv, now + 1)
    /\ cbExpired' = (cbExpired \/ (Has(CBKey) /\ kv[CBKey].exp <= now + 1))
    /\ hoAdmits' = IF Has(CBKey) /\ kv[CBKey].exp <= now + 1 THEN 0 ELSE hoAdmits
    /\ UNCHANGED <<rlVars, tokVars, storeUp, stVars, cbMem, tasks, pipe, cbStarted, consec, lastFailAt, probeOk,
                   hoFailAt, hitChanged>>
    /\ closing' = FALSE

NextCB ==
    \/ \E i \in Instances, r \in CBRoutes : Enter(i, r)
    \/ \E t \in TaskIds : GetCircuit(t)
    \/ \E i \in Instances, n \in 1..NumTasks : Deliver(i, n)
    \/ \E t \in TaskIds : Handle(t)
    \/ \E t \in TaskIds, h \in CBHandlerOutcomes : Respond(t, h)
    \/ TickCB

-----------------------------------------------------------------------------
(* The MercadoLibre tokens of a user: services/userService.js of the       *)
(* integration service, routes/auth.js and models/User.js of the user      *)
(* service.  A token pair is told apart by its number: pair 0 is the one   *)
(* stored when the behaviour starts.                                       *)

TokProcs == 1..NumTokProcs

\* the user whose tokens are looked up, refreshed and disconnected
UserId == "u1"

\* `user_tokens:${userId}` in the integration service's Redis
UserTokensKey == <<"user_tokens", UserId>>

\* undefined or NULL, where a token is expected
NoToken == 0 - 1

\* no tokens: null, or an absent key
NoTokens ==
    [access_token |-> NoToken, refresh_token |-> NoToken, expires_at |-> 0,
     ml_user_id |-> Null, is_expired |-> FALSE]

\* an absent key of the user service's Redis
NoEntry == [val |-> NoTokens, exp |-> 0]

\* the local variables of a handler that has not started
NoLocal ==
    [kind |-> "none", tokens |-> NoTokens, expired |-> FALSE, seen |-> NoToken,
     stored |-> NoToken, need |-> FALSE, dead |-> FALSE, at |-> 0,
     caller |-> "none", st |-> 0]

\* User.getMLTokens: the token columns of the row `WHERE ml_connected = TRUE`
\* with is_expired, or null
getMLTokens ==
    IF db.ml_connected
    THEN [access_token |-> db.ml_access_token, refresh_token |-> db.ml_refresh_token,
          expires_at |-> db.ml_token_expires_at, ml_user_id |-> db.ml_user_id,
          is_expired |-> db.ml_token_expires_at < now]
    ELSE NoTokens

\* User.findById: result.rows[0], whose properties are the columns of the
\* query; both the pg pool and the mock database name them in snake case
findById ==
    [ml_access_token |-> db.ml_access_token, ml_refresh_token |-> db.ml_refresh_token]

\* row[name] in JavaScript: undefined for a property the row does not have
Property(row, name) == IF name \in DOMAIN row THEN row[name] ELSE NoToken

\* an UPDATE that leaves the refresh token in the row
clearMLTokensKeepRefresh ==
    [ml_connected |-> FALSE, ml_access_token |-> NoToken,
     ml_refresh_token |-> db.ml_refresh_token,
     ml_token_expires_at |-> 0, ml_user_id |-> Null]

\* User.clearMLTokens: ml_connected = FALSE and the token columns NULL
clearMLTokens ==
    [ml_connected |-> FALSE, ml_access_token |-> NoToken, ml_refresh_token |-> NoToken,
     ml_token_expires_at |-> 0, ml_user_id |-> Null]

\* the users row and the key ml_tokens of an account that the OAuth callback
\* connected one tick before the behaviour starts
InitTok ==
    /\ db = [ml_connected |-> TRUE, ml_access_token |-> 0, ml_refresh_token |-> 0,
             ml_token_expires_at |-> Epoch - 1 + TokenExpiresIn, ml_user_id |-> "ml1"]
    /\ mlTokens = [val |-> [access_token |-> 0, refresh_token |-> 0,
                            expires_at |-> Epoch - 1 + TokenExpiresIn,
                            user_id |-> "ml1"],
                   exp |-> Epoch - 1 + TokenExpiresIn]
    /\ revoked = FALSE
    /\ tpc = [p \in TokProcs |-> "idle"]
    /\ tloc = [p \in TokProcs |-> NoLocal]
    /\ tstarted = 0
    /\ cleared = FALSE

\* who calls getUserTokens: a route, through the function it took off the
\* exported object (`const { getUserTokens } = require(...)`), or a method of
\* the object itself (this.getUserTokens)
Callers == {"route", "method"}

\* a handler starts
StartTok(p, k, c) ==
    /\ tpc[p] = "idle"
    /\ \A q \in TokProcs : q < p => tpc[q] # "idle"
    /\ tstarted < MaxTokRequests
    /\ tstarted' = tstarted + 1
    /\ tloc' = [tloc EXCEPT ![p] =
                   [NoLocal EXCEPT !.kind = k, !.at = now, !.caller = c,
                                   !.seen = db.ml_access_token,
                                   !.stored = db.ml_refresh_token,
                                   !.need = (db.ml_connected /\ db.ml_token_expires_at < now),
                                   !.dead = revoked]]
    /\ UNCHANGED <<now, kv, db, mlTokens, revoked, cleared>>
    /\ UNCHANGED <<rlVars, cbVars, storeUp, stVars>>

\* getUserTokens(userId) is called
StartLookup(p, c) ==
    /\ StartTok(p, "lookup", c)
    /\ tpc' = [tpc EXCEPT ![p] = "L_cache"]

\* getUserTokens returns t to the route, which sends t.access_token upstream
ReturnTokens(p, t) ==
    /\ tpc' = [tpc EXCEPT ![p] = "L_done"]
    /\ tloc' = [tloc EXCEPT ![p].tokens = t, ![p].expired = (t.expires_at < tloc[p].at),
                            ![p].st = 200]

\* getUserTokens: redis.getUserTokens(userId); a cached record is returned
LookupCache(p) ==
    /\ tpc[p] = "L_cache"
    /\ IF Reads(UserTokensKey)
       THEN ReturnTokens(p, Get(UserTokensKey))
       ELSE /\ tpc' = [tpc EXCEPT ![p] = "L_fetch"]
            /\ UNCHANGED tloc
    /\ UNCHANGED <<now, kv, db, mlTokens, revoked, tstarted, cleared>>
    /\ UNCHANGED <<rlVars, cbVars, storeUp, stVars>>

\* getUserTokens: axios.get(`${this.baseURL}/api/users/${userId}/ml-tokens`),
\* answered by the user service with User.getMLTokens(userId), with 404 for a
\* user that is not connected (getUserTokens returns null and the route
\* answers 401), or failing.  Called as a plain function, getUserTokens has no
\* `this`: reading this.baseURL throws, and the catch block throws
\* USER_TOKENS_FETCH_FAILED
LookupFetch(p, outcome) ==
    /\ tpc[p] = "L_fetch"
    /\ IF outcome = "ok" /\ tloc[p].caller = "method"
       THEN IF getMLTokens # NoTokens
            THEN /\ tpc' = [tpc EXCEPT ![p] = "L_set"]
                 /\ tloc' = [tloc EXCEPT ![p].tokens = getMLTokens]
            ELSE /\ tpc' = [tpc EXCEPT ![p] = "L_done"]
                 /\ tloc' = [tloc EXCEPT ![p].st = 401]
       ELSE /\ tpc' = [tpc EXCEPT ![p] = "L_done"]
            /\ tloc' = [tloc EXCEPT ![p].st = 500]
    /\ UNCHANGED <<now, kv, db, mlTokens, revoked, tstarted, cleared>>
    /\ UNCHANGED <<rlVars, cbVars, storeUp, stVars>>

\* getUserTokens: redis.cacheUserTokens(userId, tokens, 1800); return tokens
LookupCacheSet(p) ==
    /\ tpc[p] = "L_set"
    /\ kv' = Written(SetEx(kv, UserTokensKey, tloc[p].tokens, TokenCacheTTL))
    /\ ReturnTokens(p, tloc[p].tokens)
    /\ UNCHANGED <<now, db, mlTokens, revoked, tstarted, cleared>>
    /\ UNCHANGED <<rlVars, cbVars, storeUp, stVars>>

\* a client sends POST /api/auth/ml/refresh
StartRefresh(p) ==
    /\ StartTok(p, "refresh", "none")
    /\ tpc' = [tpc EXCEPT ![p] = "R_find"]

\* POST /ml/refresh: user = await User.findById(userId); 400 without
\* user.mlRefreshToken.  The call of the token endpoint and the update that
\* follow in the handler need a row with that property
RefreshFind(p) ==
    /\ tpc[p] = "R_find"
    /\ IF Property(findById, "mlRefreshToken") = NoToken
       THEN /\ tpc' = [tpc EXCEPT ![p] = "R_done"]
            /\ tloc' = [tloc EXCEPT ![p].st = 400]
       ELSE /\ tpc' = [tpc EXCEPT ![p] = "R_post"]
            /\ UNCHANGED tloc
    /\ UNCHANGED <<now, kv, db, mlTokens, revoked, tstarted, cleared>>
    /\ UNCHANGED <<rlVars, cbVars, storeUp, stVars>>

\* a client sends DELETE /api/auth/ml/disconnect
StartDisconnect(p) ==
    /\ StartTok(p, "disconnect", "none")
    /\ tpc' = [tpc EXCEPT ![p] = "D_clear"]

\* DELETE /ml/disconnect: User.clearMLTokens(userId), one UPDATE of the row,
\* or an error of the database
DisconnectClear(p, outcome) ==
    /\ tpc[p] = "D_clear"
    /\ IF outcome = "ok"
       THEN /\ db' = clearMLTokens
            /\ tpc' = [tpc EXCEPT ![p] = "D_del"]
            /\ UNCHANGED tloc
       ELSE /\ tpc' = [tpc EXCEPT ![p] = "D_done"]
            /\ tloc' = [tloc EXCEPT ![p].st = 500]
            /\ UNCHANGED db
    /\ UNCHANGED <<now, kv, mlTokens, revoked, tstarted, cleared>>
    /\ UNCHANGED <<rlVars, cbVars, storeUp, stVars>>

\* DELETE /ml/disconnect: redis.del(`ml_tokens:${userId}`)
DisconnectDel(p) ==
    /\ tpc[p] = "D_del"
    /\ mlTokens' = NoEntry
    /\ tpc' = [tpc EXCEPT ![p] = "D_event"]
    /\ UNCHANGED <<now, kv, db, revoked, tloc, tstarted, cleared>>
    /\ UNCHANGED <<rlVars, cbVars, storeUp, stVars>>

\* DELETE /ml/disconnect: sendKafkaEvent('ml.disconnected'), then
\* res.json({success: true}); 500 if the event cannot be sent
DisconnectEvent(p, outcome) ==
    /\ tpc[p] = "D_event"
    /\ tpc' = [tpc EXCEPT ![p] = "D_done"]
    /\ tloc' = [tloc EXCEPT ![p].st = IF outcome = "ok" THEN 200 ELSE 500]
    /\ cleared' = (cleared \/ outcome = "ok")
    /\ UNCHANGED <<now, kv, db, mlTokens, revoked, tstarted>>
    /\ UNCHANGED <<rlVars, cbVars, storeUp, stVars>>

\* MercadoLibre retires the user's refresh token: the user has withdrawn the
\* authorization, or the token has run out
RevokeGrant ==
    /\ ~revoked
    /\ revoked' = TRUE
    /\ UNCHANGED <<now, kv, db, mlTokens, tpc, tloc, tstarted, cleared>>
    /\ UNCHANGED <<rlVars, cbVars, storeUp, stVars>>

\* the caller has its answer
FinishTok(p) ==
    /\ tpc[p] \in {"L_done", "R_done", "D_done"}
    /\ tpc' = [tpc EXCEPT ![p] = "idle"]
    /\ tloc' = [tloc EXCEPT ![p] = NoLocal]
    /\ UNCHANGED <<now, kv, db, mlTokens, revoked, tstarted, cleared>>
    /\ UNCHANGED <<rlVars, cbVars, storeUp, stVars>>

\* the clock advances; keys whose TTL has run out disappear from both Redis
TickTok ==
    /\ now < Epoch + MaxTokTicks
    /\ now' = now + 1
    /\ kv' = Unexpired(kv, now + 1)
    /\ mlTokens' = IF mlTokens.exp > now + 1 THEN mlTokens ELSE NoEntry
    /\ UNCHANGED <<db, revoked, tpc, tloc, tstarted, cleared>>
    /\ UNCHANGED <<rlVars, cbVars, storeUp, stVars>>

NextTok ==
    \/ \E p \in TokProcs, c \in Callers : StartLookup(p, c)
    \/ \E p \in TokProcs : LookupCache(p)
    \/ \E p \in TokProcs, outcome \in {"ok", "fail"} : LookupFetch(p, outcome)
    \/ \E p \in TokProcs : LookupCacheSet(p)
    \/ \E p \in TokProcs : StartRefresh(p)
    \/ \E p \in TokProcs : RefreshFind(p)
    \/ \E p \in TokProcs : StartDisconnect(p)
    \/ \E p \in TokProcs, outcome \in {"ok", "fail"} : DisconnectClear(p, outcome)
    \/ \E p \in TokProcs : DisconnectDel(p)
    \/ \E p \in TokProcs, outcome \in {"ok", "fail"} : DisconnectEvent(p, outcome)
    \/ RevokeGrant
    \/ \E p \in TokProcs : FinishTok(p)
    \/ TickTok

-----------------------------------------------------------------------------
(* config/redis.js: RedisClient.get, set and del, used as the cache.  A    *)
(* value is a JavaScript value that JSON can carry; Redis holds its text.  *)

StoreKeys == {"ml_item:MLA1", "ml_category:MLA1"}
StoreTTLs == {CacheTTLProducts, CacheTTLProductDetail}
MaxStoreTicks == 2

JsNull  == [t |-> "null",    v |-> "null"]
JsValues ==
    {[t |-> "object",  v |-> "id:MLA1"], [t |-> "number", v |-> "0"],
     [t |-> "string",  v |-> "0"], [t |-> "boolean", v |-> "false"], JsNull}

\* JSON.stringify(value)
Stringify(value) ==
    CASE value.t = "object" -> "{\"id\":\"MLA1\"}"
      [] value.t = "string" -> "\"0\""
      [] OTHER              -> value.v

\* JSON.parse(text)
Parse(text) ==
    CASE text = "{\"id\":\"MLA1\"}" -> [t |-> "object",  v |-> "id:MLA1"]
      [] text = "\"0\""             -> [t |-> "string",  v |-> "0"]
      [] text = "0"                 -> [t |-> "number",  v |-> text]
      [] text = "false"             -> [t |-> "boolean", v |-> text]
      [] text = "null"              -> JsNull

\* value ? JSON.parse(value) : null, on the reply of client.get: null for an
\* absent key and for a command that failed
StoreGetResult(key) ==
    IF Reads(key) /\ kv[key].val # "" THEN Parse(kv[key].val) ELSE JsNull

NoGet == [key |-> "none", value |-> JsNull, at |-> NullTime, seq |-> 0]

InitStore ==
    /\ got = NoGet
    /\ puts = <<>>

\* RedisClient.set(key, value, ttlSeconds)
StoreSet(key, value, ttl) ==
    /\ kv' = Written(SetEx(kv, key, Stringify(value), ttl))
    /\ puts' = IF storeUp
               THEN [k \in DOMAIN puts \cup {key} |->
                        IF k = key THEN [value |-> value, at |-> now, ttl |-> ttl]
                        ELSE puts[k]]
               ELSE puts
    /\ UNCHANGED <<now, storeUp, got, rlVars, cbVars, tokVars>>

\* RedisClient.get(key)
StoreGet(key) ==
    /\ got' = [key |-> key, value |-> StoreGetResult(key), at |-> now,
               seq |-> 1 - got.seq]
    /\ UNCHANGED <<now, kv, storeUp, puts, rlVars, cbVars, tokVars>>

\* RedisClient.del(key)
StoreDel(key) ==
    /\ kv' = Written(Del(kv, key))
    /\ puts' = IF storeUp THEN [k \in DOMAIN puts \ {key} |-> puts[k]] ELSE puts
    /\ UNCHANGED <<now, storeUp, got, rlVars, cbVars, tokVars>>

\* the clock advances; keys whose TTL has run out disappear
TickStore ==
    /\ now < Epoch + MaxStoreTicks
    /\ now' = now + 1
    /\ kv' = Unexpired(kv, now + 1)
    /\ UNCHANGED <<storeUp, stVars, rlVars, cbVars, tokVars>>

NextStore ==
    \/ \E k \in StoreKeys, v \in JsValues, ttl \in StoreTTLs : StoreSet(k, v, ttl)
    \/ \E k \in StoreKeys : StoreGet(k)
    \/ \E k \in StoreKeys : StoreDel(k)
    \/ TickStore

-----------------------------------------------------------------------------
(* Specifications *)

\* the gateway and its rate limiter, on an empty Redis database
Init ==
    /\ now = Epoch
    /\ kv = <<>>
    /\ storeUp = TRUE
    /\ InitRL
    /\ InitCB
    /\ InitTok
    /\ InitStore

Next == NextRL

Spec == Init /\ [][Next]_vars

\* the record and the singleton of instance 1 once two requests served by
\* instance 1 have failed one after the other (four onFailure calls), the
\* recovery timeout has elapsed and, one tick before the behaviour starts, a
\* first call has moved the circuit to HALF_OPEN and has ended with a 4xx
\* answer
ProbingBreaker ==
    [currentState |-> "HALF_OPEN", failureCount |-> FailureThreshold + 1,
     lastFailureTime |-> Epoch - 1 - RecoveryTimeout, halfOpenCalls |-> 0]

InitProbing ==
    /\ now = Epoch
    /\ kv = [k \in {CBKey} |-> [val |-> StateData(ProbingBreaker),
                                exp |-> Epoch - 1 + StateTTL]]
    /\ storeUp = TRUE
    /\ InitRL
    /\ cbMem = [i \in Instances |-> IF i = 1 THEN ProbingBreaker ELSE FreshBreaker]
    /\ tasks = [t \in TaskIds |-> NoTask]
    /\ pipe = [i \in Instances |-> <<>>]
    /\ cbStarted = 0
    /\ consec = FailureThreshold + 1
    /\ lastFailAt = Epoch - 1 - RecoveryTimeout
    /\ cbExpired = FALSE
    /\ hoAdmits = 0
    /\ probeOk = 0
    /\ hoFailAt = NullTime
    /\ hitChanged = FALSE
    /\ closing = FALSE
    /\ InitTok
    /\ InitStore

\* the circuit breaker and its middleware, from a fresh deployment and from a
\* circuit that is probing recovery
SpecCB == (Init \/ InitProbing) /\ [][NextCB]_vars

\* the token lookups and refreshes of one user
SpecTok == Init /\ [][NextTok]_vars

\* the record and the singleton of instance 1 at the instant the onFailure
\* call that reached the threshold has opened the circuit
OpenBreaker ==
    [currentState |-> "OPEN", failureCount |-> FailureThreshold,
     lastFailureTime |-> Epoch, halfOpenCalls |-> 0]

InitOpen ==
    /\ now = Epoch
    /\ kv = [k \in {CBKey} |-> [val |-> StateData(OpenBreaker), exp |-> Epoch + StateTTL]]
    /\ storeUp = TRUE
    /\ InitRL
    /\ cbMem = [i \in Instances |-> IF i = 1 THEN OpenBreaker ELSE FreshBreaker]
    /\ tasks = [t \in TaskIds |-> NoTask]
    /\ pipe = [i \in Instances |-> <<>>]
    /\ cbStarted = 0
    /\ consec = FailureThreshold
    /\ lastFailAt = Epoch
    /\ cbExpired = FALSE
    /\ hoAdmits = 0
    /\ probeOk = 0
    /\ hoFailAt = NullTime
    /\ hitChanged = FALSE
    /\ closing = FALSE
    /\ InitTok
    /\ InitStore

\* requests keep arriving at instance i; a request waits while fewer than two
\* of the places for requests and breaker calls in progress are free
ArriveLive(i) ==
    /\ Cardinality(FreeTasks) >= 2
    /\ Arrive(i, "itemGet")
    /\ UNCHANGED cbStarted

\* the upstream answers every call with 200
RespondOk(t) == Respond(t, [end |-> "upstream", up |-> 200])

NextLive ==
    \/ ArriveLive(1)
    \/ \E t \in TaskIds : GetCircuit(t)
    \/ \E n \in 1..NumTasks : Deliver(1, n)
    \/ \E t \in TaskIds : Handle(t)
    \/ \E t \in TaskIds : RespondOk(t)
    \/ TickCB

\* requests keep arriving, Redis answers every command, the event loop runs
\* the continuations that are ready, the route handlers go on, the upstream
\* answers every call, and time passes
FairLive ==
    /\ SF_vars(ArriveLive(1))
    /\ WF_vars(\E t \in TaskIds : GetCircuit(t))
    /\ WF_vars(\E n \in 1..NumTasks : Deliver(1, n))
    /\ WF_vars(\E t \in TaskIds : Handle(t))
    /\ WF_vars(\E t \in TaskIds : RespondOk(t))
    /\ WF_vars(TickCB)

\* an open circuit in front of an upstream that has recovered
SpecLive == InitOpen /\ [][NextLive]_vars /\ FairLive

\* one caller of the cache operations of RedisClient
SpecStore == Init /\ [][NextStore]_vars

\* the connection to Redis is lost: the client's 'error' and 'end' events
RedisError ==
    /\ storeUp
    /\ storeUp' = FALSE
    /\ UNCHANGED <<now, kv, rlVars, cbVars, tokVars, stVars>>

\* the connection is back: the client's 'ready' event
RedisReady ==
    /\ ~storeUp
    /\ storeUp' = TRUE
    /\ UNCHANGED <<now, kv, rlVars, cbVars, tokVars, stVars>>

\* every route and every upstream outcome, the requests one after another
NextRoutes ==
    \/ \E r \in Routes, t \in Tokens \cup {"none"} : Start(1, r, t)
    \/ CheckPenalty(1)
    \/ CheckCount(1)
    \/ CacheGet(1)
    \/ \E outcome \in UpstreamOutcomes : Http(1, outcome)
    \/ Record(1)
    \/ CacheSet(1)
    \/ Penalize(1)
    \/ Invalidate(1)
    \/ Finish(1)
    \/ Tick

SpecRoutes == Init /\ [][NextRoutes]_vars

\* requests for an item one after another, with a connection to Redis that
\* comes and goes
NextOutage ==
    \/ \E t \in Tokens : Start(1, "itemGet", t)
    \/ CheckPenalty(1)
    \/ CheckCount(1)
    \/ CacheGet(1)
    \/ \E outcome \in RLOutcomes : Http(1, outcome)
    \/ Record(1)
    \/ CacheSet(1)
    \/ Penalize(1)
    \/ Finish(1)
    \/ Tick
    \/ RedisError
    \/ RedisReady

SpecOutage == Init /\ [][NextOutage]_vars

\* the circuit breaker of the instances when what it depends on fails: one
\* route is served while the circuit is probing recovery, the upstream answers
\* 200 or does not answer, and the connection to Redis is lost at some point
NextCBFaults ==
    \/ \E i \in Instances : Enter(i, "itemGet")
    \/ \E t \in TaskIds : GetCircuit(t)
    \/ \E i \in Instances, n \in 1..NumTasks : Deliver(i, n)
    \/ \E t \in TaskIds : Handle(t)
    \/ \E t \in TaskIds, u \in {200, 0} : Respond(t, [end |-> "upstream", up |-> u])
    \/ TickCB
    \/ RedisError

SpecCBFaults == InitProbing /\ [][NextCBFaults]_vars

\* the circuit breaker of one instance in front of a route whose calls the
\* rate limiter denies or the upstream answers
NextCBLocal ==
    \/ Enter(1, "itemGet")
    \/ \E t \in TaskIds : GetCircuit(t)
    \/ \E n \in 1..NumTasks : Deliver(1, n)
    \/ \E t \in TaskIds : Handle(t)
    \/ \E t \in TaskIds, h \in {[end |-> "denied", up |-> 0], [end |-> "upstream", up |-> 200]} :
            Respond(t, h)
    \/ TickCB

SpecCBLocal == Init /\ [][NextCBLocal]_vars

-----------------------------------------------------------------------------
(* Properties of the rate limiter *)

\* handlers whose call checkRateLimit has admitted for `identifier` in the
\* window in progress, that go upstream (no cache hit) and whose request is
\* not yet counted in tier t
Uncounted(t, identifier) ==
    {p \in Procs :
        /\ admit[p].ok
        /\ Identifier(opt[p]) = identifier
        /\ admit[p].win = now \div HourWindowMs
        /\ \/ pc[p] = "http"
           \/ pc[p] = "record" /\ tier[p] <= t}

\* C1: admission and counting are one atomic step: when one unit of budget is
\* left in the window of the global or of the per-identifier tier, at most one
\* of the concurrent callers is admitted.
C1_AtomicAdmission ==
    \A i \in Tokens :
        /\ Recorded(2, i) = UserLimitRequests - 1 => Cardinality(Uncounted(2, i)) <= 1
        /\ Recorded(1, i) = GlobalLimitRequests - 1 =>
              Cardinality(UNION {Uncounted(1, j) : j \in Tokens}) <= 1

\* C2: the recorded count of a window never exceeds limit + 1, for every tier
\* and key.
C2_CountAtMostLimitPlusOne ==
    \A i \in Tokens, t \in 1..3 : Recorded(t, i) <= TierLimit(t) + 1

\* C5: a call for identifier X that starts while a penalty applied to X is in
\* force is not admitted by the rate limiter before the penalty has run out.
C5_PenaltyBlocks ==
    \A p \in Procs : admit[p].ok => ~admit[p].penalized

\* C6: the number of HTTP requests sent upstream within one global window
\* never exceeds globalLimit + 1.
C6_UpstreamWithinQuota == sent <= GlobalLimitRequests + 1

\* C7: when the requests of the behaviour run one after another, at most
\* perIdentifierLimit requests of one identifier are admitted in one window,
\* and the per-identifier tier rejects none before that many were admitted.
C7_SequentialLimit ==
    ~overlapped => /\ \A i \in Tokens : admits[i] <= UserLimitRequests
                   /\ ~earlyReject

\* C8: once burstLimit requests of an identifier are recorded in the burst
\* window in progress, no further request of that identifier is admitted.
C8_BurstEnforced ==
    \A p \in Procs : admit[p].ok => ~admit[p].burstFull

-----------------------------------------------------------------------------
(* Properties of the circuit breaker *)

\* breaker calls that record an outcome and have not completed
Recording == {t \in TaskIds : tasks[t].kind \in {"onSuccess", "onFailure"}}

\* C3: while the circuit record is kept, a call that enters the middleware
\* after failureThreshold failures in a row have been recorded, and that is
\* decided before recoveryTimeout has elapsed since the last of them with no
\* other outcome recorded in between, is not admitted.
C3_OpenRejects ==
    ~cbExpired => \A t \in TaskIds : tasks[t].kind = "handler" => tasks[t].late = 0

\* C4: in one HALF_OPEN episode the HALF_OPEN branch of canExecute admits at
\* most halfOpenMaxCalls calls.
C4_HalfOpenBounded == hoAdmits <= HalfOpenMaxCalls

\* C9: no upstream 4xx response is recorded as a circuit-breaker failure.
C9_ClientErrorNotFailure ==
    \A t \in TaskIds : tasks[t].kind = "onFailure" => tasks[t].cause # "client"

\* C10: no recorded failure is lost: once the onFailure calls in progress have
\* completed, a CLOSED record counts at least the failures recorded since the
\* last success, and the record is not CLOSED when they reach failureThreshold.
C10_NoLostFailure ==
    (Recording = {} /\ ~cbExpired /\ Has(CBKey)) =>
        /\ StoredState = "CLOSED" => Get(CBKey).failureCount >= consec
        /\ consec >= FailureThreshold => StoredState # "CLOSED"

\* C11: once halfOpenMaxCalls probes of a HALF_OPEN episode have been answered
\* with success, with no failure recorded since the episode started and no
\* recording call in progress, the record is CLOSED with failureCount = 0 and
\* halfOpenCalls = 0.
C11_ProbesClose ==
    (Recording = {} /\ ~cbExpired /\ Has(CBKey) /\ probeOk >= HalfOpenMaxCalls) =>
        /\ StoredState = "CLOSED"
        /\ Get(CBKey).failureCount = 0
        /\ Get(CBKey).halfOpenCalls = 0

\* C14: no breaker call made for a response that was served from the cache
\* changes the circuit record.
C14_CacheHitKeepsCircuit == ~hitChanged

\* C15: no read whose cache key holds an unexpired entry, when the request
\* arrives and when it is decided, is rejected by the OPEN circuit.
C15_CacheBeforeBreaker ==
    \A t \in TaskIds : tasks[t].kind = "getStats" => ~tasks[t].hit

\* C12: while the circuit record is kept, a call that enters the middleware
\* after a failure was recorded by a call that saw HALF_OPEN, and that is
\* decided before recoveryTimeout has elapsed since that failure with no other
\* such failure in between, is not admitted.
C12_ProbeFailureReopens ==
    ~cbExpired => \A t \in TaskIds : tasks[t].kind = "handler" => tasks[t].after = 0


------------------------------------------------------------------------------
(* The response cache *)

\* the keys of the response cache
CacheKeys == {k \in DOMAIN kv : k[1] \in {"ml_item", "ml_category", "ml_user"}}

\* the rate-limit counters of a store, with their values
Counters(s) == [k \in {c \in DOMAIN s : c[1] = "rate_limit"} |-> s[k]]

\* C13: a read whose cache lookup finds an unexpired entry is answered 200 with
\* the payload of that entry; the request has sent no HTTP request upstream
\* and has changed no rate-limit counter
C13_CacheHitFrame ==
    [][\A p \in Procs :
          (pc[p] = "cacheGet" /\ Has(opt[p].cacheKey) /\ pc'[p] # "cacheGet") =>
              /\ pc'[p] = "respond"
              /\ status'[p] = 200
              /\ body'[p] = [src |-> "cache", val |-> Get(opt[p].cacheKey)]
              /\ sentBy'[p] = 0 /\ sent' = sent
              /\ recBy'[p] = 0 /\ Counters(kv') = Counters(kv)]_vars

\* a read has been answered from the cache while another request was in progress
C13_Witness ==
    \E p \in Procs :
        /\ pc[p] = "respond" /\ status[p] = 200
        /\ body[p].src = "cache" /\ sentBy[p] = 0 /\ recBy[p] = 0
        /\ \E q \in Procs \ {p} : pc[q] # "idle"

\* C16: a read of the item that arrives after an update was answered with
\* success is never answered with a payload older than that update
C16_NoStaleReadAfterWrite ==
    \A p \in Procs :
        (route[p] = "itemGet" /\ pc[p] = "respond" /\ status[p] = 200) =>
            body[p].val.ver >= floor[p]

\* C17: every entry of the response cache is the body of a successful
\* upstream response to a GET
C17_CacheHoldsSuccessfulGets ==
    \A k \in CacheKeys : kv[k].val.status = 200 /\ kv[k].val.method = "GET"

\* the cache holds the item and a request is in progress
C17_Witness ==
    /\ <<"ml_item", "item1">> \in CacheKeys
    /\ \E p \in Procs : pc[p] = "respond" /\ body[p].src = "upstream" /\ status[p] = 200


-----------------------------------------------------------------------------
(* The tokens *)

\* C18: a refresh request made for a connected user whose access token has
\* expired, and whose refresh token MercadoLibre still accepts, is answered
\* with success: the caller has a refreshed token
C18_RefreshRequestServed ==
    \A p \in TokProcs :
        (tpc[p] = "R_done" /\ tloc[p].need /\ ~tloc[p].dead /\ db.ml_connected) =>
            tloc[p].st = 200

\* C19: the token lookup of a route never returns an access token whose
\* expires_at was already past when the lookup was asked for
C19_LookupReturnsLiveToken ==
    \A p \in TokProcs :
        (tpc[p] = "L_done" /\ tloc[p].caller = "route" /\ tloc[p].st = 200) =>
            ~tloc[p].expired

\* C20: once a refresh request for a user whose row holds a refresh token that
\* MercadoLibre accepts has been answered, the row holds neither the access
\* token nor the refresh token it held when the request arrived
C20_RefreshRotatesTokens ==
    \A p \in TokProcs :
        (tpc[p] = "R_done" /\ tloc[p].stored # NoToken /\ ~tloc[p].dead) =>
            /\ db.ml_access_token # tloc[p].seen
            /\ db.ml_refresh_token # tloc[p].stored

\* C21: once a refresh request for a user whose refresh token MercadoLibre no
\* longer accepts has been answered, the user is disconnected: the row is not
\* marked connected and holds no tokens
C21_TerminalFailureDisconnects ==
    \A p \in TokProcs :
        (tpc[p] = "R_done" /\ tloc[p].dead) =>
            /\ ~db.ml_connected
            /\ db.ml_access_token = NoToken
            /\ db.ml_refresh_token = NoToken

------------------------------------------------------------------------------
(* The answers of the routes *)

\* C23: a request that the rate limiter denies is answered 429, on every
\* route, and no HTTP request has been sent upstream for it.
C23_DenialAnswers429 ==
    \A p \in Procs :
        (pc[p] = "respond" /\ err[p] = "RATE_LIMIT_EXCEEDED") =>
            /\ status[p] = 429
            /\ sentBy[p] = 0

\* C24: the status answered for an upstream response depends on the status of
\* that response only, on every route: 401 for a 401, 404 for a 404, a server
\* error for a 5xx.
C24_StatusFollowsUpstream ==
    \A p \in Procs :
        (pc[p] = "respond" /\ err[p] \notin {"none", "RATE_LIMIT_EXCEEDED"}) =>
            /\ resp[p].status = 401 => status[p] = 401
            /\ resp[p].status = 404 => status[p] = 404
            /\ resp[p].status = 500 => status[p] >= 500

------------------------------------------------------------------------------
(* The tiers of the rate limiter *)

\* the positions of a handler inside checkRateLimit
Checking == {"chkPen", "chkCnt"}

C29_AdmittedIsCounted ==
    \A p \in Procs :
        (pc[p] = "respond" /\ admit[p].ok /\ err[p] \notin {"none", "RATE_LIMIT_EXCEEDED"}) =>
            recBy[p] = LastTier(Identifier(opt[p]))

------------------------------------------------------------------------------
(* Redis out of reach *)

\* C25: a step of the admission check whose read of the counter store fails
\* does not reject the request: the check goes on to the next tier, and after
\* the last tier the request is admitted.
C25_FailOpen ==
    [][\A p \in Procs :
          (~storeUp /\ pc[p] \in {"chkPen", "chkCnt"} /\ pc'[p] # pc[p]) =>
              /\ err'[p] = "none"
              /\ pc'[p] \in {"chkPen", "chkCnt", AfterAdmit(opt[p])}
              /\ (pc[p] = "chkCnt" /\ tier[p] = LastTier(Identifier(opt[p]))) =>
                     admit'[p].ok]_vars

\* a request is admitted without Redis in a window in which the counter of
\* its identifier has reached the limit
C25_Witness ==
    \E p \in Procs :
        /\ admit[p].ok /\ admit[p].down
        /\ admit[p].win = now \div HourWindowMs
        /\ pc[p] = AfterAdmit(opt[p])
        /\ Recorded(2, Identifier(opt[p])) >= UserLimitRequests

\* C26: a call whose read of the circuit record fails because Redis is out of
\* reach is admitted, whatever state the instance observed last.
C26_PermissiveWithoutStore ==
    \A t \in TaskIds : tasks[t].kind = "getStats" => ~tasks[t].down

\* failure calls of the breaker in progress
FailureCalls(ts) == {u \in TaskIds : ts[u].kind = "onFailure"}

\* C30: the answer to a request whose upstream call got no response starts
\* exactly one onFailure call of the circuit breaker.
C30_TimeoutIsOneFailure ==
    [][\A t \in TaskIds :
          (/\ tasks[t].kind = "handler" /\ tasks[t].step = "upstream"
           /\ tasks'[t].kind = "onFailure" /\ tasks'[t].cause = "transport") =>
              Cardinality(FailureCalls(tasks')) = Cardinality(FailureCalls(tasks)) + 1]_vars

------------------------------------------------------------------------------
(* The instances *)

\* canExecute calls whose get has been answered and whose continuation is the
\* next to run on their instance
Deciding ==
    {t \in TaskIds : /\ tasks[t].kind = "canExecute"
                     /\ tasks[t].step = "load"
                     /\ Head(pipe[tasks[t].inst]) = t}

\* what canExecute is about to answer to call t
Answer(t) ==
    LET m == getState(cbMem[tasks[t].inst], tasks[t].data)
    IN  canExecute(m, m.currentState)

\* C27: two instances that decide canExecute at the same time, having had
\* the same answer to their read of the circuit record (the record, or null),
\* give the same answer.
C27_InstancesAgree ==
    \A t, u \in Deciding : tasks[t].data = tasks[u].data => Answer(t) = Answer(u)

-----------------------------------------------------------------------------
-----------------------------------------------------------------------------
\* C32: the state held by the circuit record changes only from CLOSED to
\* OPEN, from OPEN to HALF_OPEN, from HALF_OPEN to CLOSED and from HALF_OPEN
\* to OPEN, whatever the interleaving of the breaker calls of concurrent
\* requests and instances.  (A record that appears or expires is no change.)
C32_LegalTransitions ==
    [][(StoredState # "none" /\ StoredStateOf(kv') # "none"
            /\ StoredStateOf(kv') # StoredState) =>
        <<StoredState, StoredStateOf(kv')>> \in
            {<<"CLOSED", "OPEN">>, <<"OPEN", "HALF_OPEN">>,
             <<"HALF_OPEN", "CLOSED">>, <<"HALF_OPEN", "OPEN">>}]_vars
\* C33: the answer to a request that has passed the middleware starts at
\* most one call of onSuccess or onFailure.
C33_OneOutcomePerRequest ==
    [][\A t \in TaskIds :
          (tasks[t].kind = "handler" /\ tasks[t].step = "upstream"
              /\ tasks'[t].kind # "handler") =>
              Cardinality(Recording') <= Cardinality(Recording) + 1]_vars
\* C34: a turn of the event loop that runs only breaker calls made for
\* requests the rate limiter denied, before any upstream call, leaves the
\* circuit record as it was.
C34_LocalRejectionFrame ==
    [][((\E t \in TaskIds : tasks[t].cause = "local" /\ tasks'[t] # tasks[t])
         /\ \A t \in TaskIds : tasks'[t] # tasks[t] => tasks[t].cause = "local") =>
            /\ (CBKey \in DOMAIN kv') = Has(CBKey)
            /\ Has(CBKey) => kv'[CBKey].val = kv[CBKey].val]_vars
\* C35: the circuit record goes from CLOSED to OPEN only when at least
\* failureThreshold failures have been recorded since the last recorded
\* success.
C35_OpensAfterThreshold ==
    [][(StoredState = "CLOSED" /\ StoredStateOf(kv') = "OPEN") =>
            consec' >= FailureThreshold]_vars
\* C36: once a disconnect of the user has been answered with success, the
\* integration service's lookup of the user's tokens does not return the
\* access token that the disconnect has superseded: the read of its cache
\* finds no copy of it.
C36_CacheDoesNotOutlive ==
    [][\A p \in TokProcs :
          (cleared /\ tpc[p] = "L_cache" /\ tpc'[p] = "L_done") =>
              tloc'[p].tokens.access_token = NoToken]_vars
====
